---- MODULE Spec2Model ----
(***************************************************************************)
(* A model of pose_parser.py: the Angle, Joint, BlazePoseFrame,            *)
(* BlazePoseSequence and MediaPipeClient classes.                          *)
(*                                                                         *)
(* Python values are modelled as follows.                                  *)
(*   - a dict is a TLA+ function whose DOMAIN is the dict's key set;       *)
(*   - a list or tuple is a TLA+ sequence;                                 *)
(*   - an object is a record of its attributes (an attribute that was      *)
(*     never assigned is not in the record's domain);                      *)
(*   - None is the record None;                                            *)
(*   - a call is an operator returning [exc, ret(, self)]: exc is NoExc    *)
(*     when the call returned, else the exception raised (its type and     *)
(*     the parts of its message); a constructor that raises yields no      *)
(*     object (ret = None).                                                *)
(*   - a float is a fixed-point number (see the Angle section).            *)
(* The three copies of the 33-name list (lines 157-191, 357-391, 500-534)  *)
(* are equal; the model keeps one, joint_position_names, and leaves the    *)
(* attributes that hold it out of the object records.                      *)
(*                                                                         *)
(* get_plumbline_vector (lines 321-323 of the source) has three lines with *)
(* an unmatched ")": the opening "(" of the shoulder midpoint is missing.  *)
(* The model reads them with the parenthesis restored, as the three        *)
(* well-formed lines 312-314 above them are written.                       *)
(***************************************************************************)
EXTENDS Integers, Sequences, FiniteSets, TLC

VARIABLES
    joint_data,     \* input: the record a Joint is built from
    joint,          \* the Joint object, or None
    frame_data,     \* input: the raw frame record a BlazePoseFrame is built from
    frame,          \* the BlazePoseFrame object, or None
    sequence,       \* input: the list of raw frame records
    seq,            \* the BlazePoseSequence object, or None
    calls,          \* number of generate_blaze_pose_frames_from_sequence calls made
    vector1,        \* input: first vector of an Angle
    vector2,        \* input: second vector of an Angle
    angle,          \* Angle(name, vector1, vector2), or None
    angle_swapped,  \* Angle(name, vector2, vector1), or None
    filename,       \* input: the video_input_filename a MediaPipeClient is built with
    video,          \* input: the video file, [opened, images]
    client,         \* the MediaPipeClient object, or None
    process_calls,  \* number of process_video calls made on client
    last            \* the last operation: [op, exc, ret]

\* the state of the Joint, BlazePoseFrame, BlazePoseSequence and Angle objects
parserVars == <<joint_data, joint, frame_data, frame, sequence, seq, calls,
                vector1, vector2, angle, angle_swapped>>

\* the state of the MediaPipeClient object
clientVars == <<filename, video, client, process_calls>>

vars == <<joint_data, joint, frame_data, frame, sequence, seq, calls,
          vector1, vector2, angle, angle_swapped,
          filename, video, client, process_calls, last>>

----------------------------------------------------------------------------
(* Bounds of the model *)

\* coordinates of a joint are drawn from 0..MaxPose (times 2)
MaxPose == 1
\* number of vocabulary joints that an input may lack or leave incomplete
MaxProbe == 3
\* number of coordinate keys an incomplete joint may lack
MaxMissingKeys == 1
\* number of top-level keys a raw frame may lack
MaxMissingTop == 1
\* length of an input sequence
MaxLen == 3
\* calls of generate_blaze_pose_frames_from_sequence on one sequence
MaxCalls == 2
\* vector components are drawn from -MaxVec..MaxVec
MaxVec == 1
\* fixed-point scale of the float model (units per 1.0)
Scale == 1000
\* number of images in a video file
MaxImages == 2
\* the limit argument of process_video is None or drawn from 0..MaxLimit
MaxLimit == 2
\* calls of process_video on one client
MaxProcessCalls == 2

----------------------------------------------------------------------------
(* Python helpers *)

None == [type |-> "NoneType"]

EmptyDict == [k \in {} |-> None]

NoExc == [type |-> "none", msg |-> <<>>]

Raise(type, msg) == [exc |-> [type |-> type, msg |-> msg], ret |-> None]

Return(v) == [exc |-> NoExc, ret |-> v]

Range(s) == {s[i] : i \in DOMAIN s}

Min(S) == CHOOSE m \in S : \A n \in S : m <= n

\* the first of the indices at which a for loop's body raises or returns,
\* 0 if there is none: where the loop stops
First(hit) == IF hit = {} THEN 0 ELSE Min(hit)

IndexOf(s, e) == CHOOSE i \in DOMAIN s : s[i] = e

\* bool(d) of a dict
Bool(d) == DOMAIN d # {}

SetAttr(obj, name, val) ==
    [a \in DOMAIN obj \cup {name} |-> IF a = name THEN val ELSE obj[a]]

----------------------------------------------------------------------------
(* class Joint *)

Joint_required_keys ==
    <<"x", "y", "z", "x_normalized", "y_normalized", "z_normalized",
      "image_dimensions">>

\* the order in which Joint.__init__ reads joint_data (lines 108-114)
Joint_read_order ==
    <<"image_dimensions", "x", "y", "z", "x_normalized", "y_normalized",
      "z_normalized">>

\* line 102: all([key in required_keys for key in joint_data])
JointKeysOk(jd) ==
    \A key \in DOMAIN jd : key \in Range(Joint_required_keys)

\* Joint.__init__
JointInit(name, jd) ==
    IF ~JointKeysOk(jd)
    THEN Raise("JointError",
               <<"The required data is missing from the joint data dictionary.">>)
    ELSE LET absent(k) == k \notin DOMAIN jd
             i == First({ix \in DOMAIN Joint_read_order : absent(Joint_read_order[ix])})
         IN  IF i # 0
             THEN Raise("KeyError", <<Joint_read_order[i]>>)
             ELSE Return([name |-> name,
                          image_dimensions |-> jd["image_dimensions"],
                          x |-> jd["x"],
                          y |-> jd["y"],
                          z |-> jd["z"],
                          x_normalized |-> jd["x_normalized"],
                          y_normalized |-> jd["y_normalized"],
                          z_normalized |-> jd["z_normalized"]])

----------------------------------------------------------------------------
(* class BlazePoseFrame *)

joint_position_names ==
    <<"nose", "left_eye_inner", "left_eye", "left_eye_outer",
      "right_eye_inner", "right_eye", "right_eye_outer", "left_ear",
      "right_ear", "mouth_left", "mouth_right", "left_shoulder",
      "right_shoulder", "left_elbow", "right_elbow", "left_wrist",
      "right_wrist", "left_pinky", "right_pinky", "left_index",
      "right_index", "left_thumb", "right_thumb", "left_hip", "right_hip",
      "left_knee", "right_knee", "left_ankle", "right_anle", "left_heel",
      "right_heel", "left_foot_index", "right_foot_index">>

required_joint_keys ==
    <<"x", "y", "z", "x_normalized", "y_normalized", "z_normalized">>

\* a validator that, like validate_pose_schema, checks only the joint names
validate_names_only(joint_positions) ==
    LET absent(j) == j \notin DOMAIN joint_positions
        i ==
            First({ix \in DOMAIN joint_position_names :
                      absent(joint_position_names[ix])})
    IN  IF i = 0
        THEN Return(TRUE)
        ELSE Raise("BlazePoseFrameError",
                   <<joint_position_names[i], " missing from joint positions dict">>)

\* BlazePoseFrame.validate_joint_position_data
validate_joint_position_data(joint_positions) ==
    LET keyAbsent(j, k) == k \notin DOMAIN joint_positions[j]
        bad(j) == \/ j \notin DOMAIN joint_positions
                  \/ \E k \in Range(required_joint_keys) : keyAbsent(j, k)
        i == First({ix \in DOMAIN joint_position_names : bad(joint_position_names[ix])})
    IN  IF i = 0
        THEN Return(TRUE)
        ELSE LET jn == joint_position_names[i]
             IN  IF jn \in DOMAIN joint_positions
                 THEN LET absentHere(k) == keyAbsent(jn, k)
                          ki ==
                              First({ix \in DOMAIN required_joint_keys :
                                        absentHere(required_joint_keys[ix])})
                      IN  Raise("BlazePoseFrameError",
                                <<required_joint_keys[ki], " missing from ",
                                  jn, " position data">>)
                 ELSE Raise("BlazePoseFrameError",
                            <<jn, " missing from joint positions dict">>)

\* the dict literal of lines 224-232, for one joint
JointDataOf(self, jn) ==
    LET raw == self.joint_positions_raw[jn]
    IN  [k \in Range(Joint_required_keys) |->
            IF k = "image_dimensions" THEN self.image_dimensions ELSE raw[k]]

\* BlazePoseFrame.set_joint_positions
set_joint_positions(self) ==
    IF ~self.has_joint_positions
    THEN Raise("BlazePoseFrameError", <<"There are no joint positions to set">>)
    ELSE LET raw == self.joint_positions_raw
             bad(j) == \/ j \notin DOMAIN raw
                       \/ \E k \in Range(required_joint_keys) : k \notin DOMAIN raw[j]
             i ==
                 First({ix \in DOMAIN joint_position_names :
                           bad(joint_position_names[ix])})
         IN  IF i # 0
             THEN LET jn == joint_position_names[i]
                  IN  IF jn \notin DOMAIN raw
                      THEN Raise("KeyError", <<jn>>)
                      ELSE LET absentHere(k) == k \notin DOMAIN raw[jn]
                               ki ==
                                   First({ix \in DOMAIN required_joint_keys :
                                             absentHere(required_joint_keys[ix])})
                           IN  Raise("KeyError", <<required_joint_keys[ki]>>)
             ELSE LET built == [jn \in Range(joint_position_names) |->
                                    JointInit(jn, JointDataOf(self, jn))]
                      failed(jn) == built[jn].exc # NoExc
                      fi ==
                          First({ix \in DOMAIN joint_position_names :
                                    failed(joint_position_names[ix])})
                  IN  IF fi # 0
                      THEN [exc |-> built[joint_position_names[fi]].exc, ret |-> None]
                      ELSE Return([jn \in Range(joint_position_names) |-> built[jn].ret])

\* BlazePoseFrame.get_plumbline_vector
get_plumbline_vector(self) ==
    LET need == <<"left_shoulder", "right_shoulder", "left_hip", "right_hip">>
        absent(j) == j \notin DOMAIN self.joints
        i == First({ix \in DOMAIN need : absent(need[ix])})
        ls == self.joints["left_shoulder"]
        rs == self.joints["right_shoulder"]
        lh == self.joints["left_hip"]
        rh == self.joints["right_hip"]
    IN  IF i # 0
        THEN Raise("KeyError", <<need[i]>>)
        ELSE Return(
               << << <<(ls.x + rs.x) \div 2, (ls.y + rs.y) \div 2, (ls.z + rs.z) \div 2>>,
                     <<(lh.x + rh.x) \div 2, (lh.y + rh.y) \div 2, (lh.z + rh.z) \div 2>> >>,
                  << <<(ls.x_normalized + rs.x_normalized) \div 2,
                       (ls.y_normalized + rs.y_normalized) \div 2,
                       (ls.z_normalized + rs.z_normalized) \div 2>>,
                     <<(lh.x_normalized + rh.x_normalized) \div 2,
                       (lh.y_normalized + rh.y_normalized) \div 2,
                       (lh.z_normalized + rh.z_normalized) \div 2>> >> >>)

\* generate_angle_measurements without the guard of lines 281-284
generate_angle_measurements_unguarded(self) ==
    LET p == get_plumbline_vector(self)
    IN  IF p.exc # NoExc
        THEN [exc |-> p.exc, ret |-> None, self |-> self]
        ELSE [exc |-> NoExc, ret |-> None,
              self |-> SetAttr(self, "plumb_line_vector", p.ret)]

\* BlazePoseFrame.generate_angle_measurements: it assigns plumb_line_vector
\* and has no return statement, so it returns None
generate_angle_measurements(self) ==
    IF ~self.has_joint_positions
    THEN [exc |-> [type |-> "BlazePoseFrameError",
                   msg |-> <<"There are no joint data to generate angles from">>],
          ret |-> None, self |-> self]
    ELSE LET p == get_plumbline_vector(self)
         IN  IF p.exc # NoExc
             THEN [exc |-> p.exc, ret |-> None, self |-> self]
             ELSE [exc |-> NoExc, ret |-> None,
                   self |-> SetAttr(self, "plumb_line_vector", p.ret)]

\* the order in which BlazePoseFrame.__init__ reads frame_data (lines 194-198)
Frame_read_order ==
    <<"frame_number", "joint_positions", "image_dimensions", "sequence_id",
      "sequence_source">>

\* has_joint_positions taken from the presence of the key, not its truth value
HasJointPositions_key_present(fd) == "joint_positions" \in DOMAIN fd

\* line 195: bool(frame_data["joint_positions"])
HasJointPositions(fd) == Bool(fd["joint_positions"])

\* BlazePoseFrame.__init__
BlazePoseFrameInit(fd) ==
    LET absent(k) == k \notin DOMAIN fd
        i == First({ix \in DOMAIN Frame_read_order : absent(Frame_read_order[ix])})
    IN  IF i # 0
        THEN Raise("KeyError", <<Frame_read_order[i]>>)
        ELSE
        LET self0 == [joints |-> EmptyDict,
                      angles |-> EmptyDict,
                      frame_number |-> fd["frame_number"],
                      has_joint_positions |-> HasJointPositions(fd),
                      image_dimensions |-> fd["image_dimensions"],
                      sequence_id |-> fd["sequence_id"],
                      sequence_source |-> fd["sequence_source"]]
        IN  IF ~self0.has_joint_positions
            THEN Return(self0)
            ELSE
            LET v == validate_joint_position_data(fd["joint_positions"])
            IN  IF v.exc # NoExc
                THEN [exc |-> v.exc, ret |-> None]
                ELSE
                LET self1 == SetAttr(self0, "joint_positions_raw", fd["joint_positions"])
                    s == set_joint_positions(self1)
                IN  IF s.exc # NoExc
                    THEN [exc |-> s.exc, ret |-> None]
                    ELSE
                    LET self2 == [self1 EXCEPT !.joints = s.ret]
                        g == generate_angle_measurements(self2)
                    IN  IF g.exc # NoExc
                        THEN [exc |-> g.exc, ret |-> None]
                        ELSE Return([g.self EXCEPT !.angles = g.ret])

----------------------------------------------------------------------------
(* Inputs: raw records *)

\* the vocabulary joints an input may lack or leave incomplete
ProbeOrder ==
    <<"nose", "right_foot_index", "left_shoulder", "left_knee", "right_hip",
      "right_anle">>

ProbeJoints ==
    {ProbeOrder[i] : i \in 1..(IF MaxProbe < Len(ProbeOrder) THEN MaxProbe ELSE Len(ProbeOrder))}

SubsetsUpTo(S, n) == {T \in SUBSET S : Cardinality(T) <= n}

\* the coordinates of joint number i in pose p
CoordValue(i, k, p) ==
    CASE k = "x" -> 2 * (p + (i % 2))
      [] k = "y" -> 2 * (i \div 8)
      [] k = "z" -> 2 * p
      [] k = "x_normalized" -> 200 * (p + (i % 2))
      [] k = "y_normalized" -> 100 * (i \div 8)
      [] OTHER -> 200 * p

\* the position of each vocabulary joint in joint_position_names
joint_index ==
    [j \in Range(joint_position_names) |-> IndexOf(joint_position_names, j)]

Coordinate_keys == Range(required_joint_keys)

\* joint_positions lacking the joints of M, the joints of D lacking the keys
\* of K, with the joints of X (not in the vocabulary) added
RawJointPositions(M, D, K, X, p) ==
    [j \in (DOMAIN joint_index \ M) \cup X |->
        IF j \in X
        THEN [k \in Coordinate_keys |-> 0]
        ELSE [k \in Coordinate_keys \ (IF j \in D THEN K ELSE {}) |->
                CoordValue(joint_index[j], k, p)]]

Top_keys ==
    <<"sequence_id", "sequence_source", "frame_number", "image_dimensions",
      "joint_positions">>

\* a raw frame record without the top-level keys of T
RawFrame(T, n, jp) ==
    [k \in Range(Top_keys) \ T |->
        CASE k = "sequence_id" -> 7
          [] k = "sequence_source" -> "mediapipe"
          [] k = "frame_number" -> n
          [] k = "image_dimensions" -> [height |-> 100, width |-> 200]
          [] OTHER -> jp]

\* joint_positions of the inputs: empty; complete, with or without a joint
\* that is not in the vocabulary; or lacking the joints of M, with the joints
\* of D lacking the keys of K
JointPositionVariants ==
    {EmptyDict}
    \cup {RawJointPositions({}, {}, {}, X, p) : X \in {{}, {"tail"}}, p \in 0..MaxPose}
    \cup {RawJointPositions(M, D, K, {}, 0) :
            M \in SUBSET ProbeJoints,
            D \in SubsetsUpTo(ProbeJoints, 1),
            K \in SubsetsUpTo(Range(required_joint_keys), MaxMissingKeys)}

----------------------------------------------------------------------------
(* class BlazePoseSequence *)

\* BlazePoseSequence.validate_pose_schema; required_keys is Top_keys and
\* self.joint_positions is the same 33-name list as joint_position_names
validate_pose_schema(fd) ==
    LET absent(k) == k \notin DOMAIN fd
        i == First({ix \in DOMAIN Top_keys : absent(Top_keys[ix])})
    IN  IF i # 0
        THEN Raise("BlazePoseSequenceError",
                   <<"Validation error - ", Top_keys[i], " is missing from frame data">>)
        ELSE LET jp == fd["joint_positions"]
                 posAbsent(pos) == pos \notin DOMAIN jp
                 pi ==
                     First({ix \in DOMAIN joint_position_names :
                               posAbsent(joint_position_names[ix])})
             IN  IF ~Bool(jp)
                 THEN Return(TRUE)
                 ELSE IF pi # 0
                      THEN Raise("BlazePoseSequenceError",
                                 <<"Validation error - ", joint_position_names[pi],
                                   " is missing from joint position data">>)
                      ELSE Return(TRUE)

\* BlazePoseSequence.__init__
BlazePoseSequenceInit(sq) ==
    LET rejected(fd) == \/ validate_pose_schema(fd).exc # NoExc
                        \/ validate_pose_schema(fd).ret # TRUE
        i == First({ix \in DOMAIN sq : rejected(sq[ix])})
    IN  IF i # 0
        THEN LET v == validate_pose_schema(sq[i])
             IN  IF v.exc # NoExc
                 THEN [exc |-> v.exc, ret |-> None]
                 ELSE Raise("BlazePoseSequenceError", <<"Validation error!">>)
        ELSE Return([sequence_data |-> sq, frames |-> <<>>])

\* BlazePoseSequence.generate_blaze_pose_frames_from_sequence: each frame is
\* appended to self.frames as soon as it is built
generate_blaze_pose_frames_from_sequence(self) ==
    LET sd == self.sequence_data
        fails(fd) == BlazePoseFrameInit(fd).exc # NoExc
        i == First({ix \in DOMAIN sd : fails(sd[ix])})
        n == IF i = 0 THEN Len(sd) ELSE i - 1
        built == [k \in 1..n |-> BlazePoseFrameInit(sd[k]).ret]
    IN  [exc |-> IF i = 0 THEN NoExc ELSE BlazePoseFrameInit(sd[i]).exc,
         ret |-> None,
         self |-> [self EXCEPT !.frames = self.frames \o built]]

----------------------------------------------------------------------------
(* class Angle *)

\* A float is [nan, v]: v counts units of 1/Scale (components, cosines) or
\* thousandths (radians, degrees); nan marks the result of 0/0.
Float(v) == [nan |-> FALSE, v |-> v]

NaN == [nan |-> TRUE, v |-> 0]

\* Python's == on floats: nan equals nothing
FloatEq(a, b) == ~a.nan /\ ~b.nan /\ a.v = b.v

TruncDiv(a, b) == IF a >= 0 THEN a \div b ELSE -((-a) \div b)

RECURSIVE IsqrtIter(_, _)
IsqrtIter(n, x) ==
    LET y == (x + n \div x) \div 2
    IN  IF y >= x THEN x ELSE IsqrtIter(n, y)

Isqrt(n) == IF n = 0 THEN 0 ELSE IsqrtIter(n, n)

RECURSIVE SumSeq(_)
SumSeq(s) == IF s = <<>> THEN 0 ELSE s[1] + SumSeq(Tail(s))

\* vector[:n]
Slice(v, n) == SubSeq(v, 1, IF n < Len(v) THEN n ELSE Len(v))

\* np.linalg.norm
Norm(vector) == Isqrt(SumSeq([i \in DOMAIN vector |-> vector[i] * vector[i]]) * Scale * Scale)

\* Angle.unit_vector: vector / norm; a zero norm gives 0/0 = nan throughout
unit_vector(vector) ==
    LET n == Norm(vector)
    IN  [i \in DOMAIN vector |->
            IF n = 0 THEN NaN ELSE Float(TruncDiv(vector[i] * Scale * Scale, n))]

\* np.dot
Dot(a, b) ==
    IF \E i \in DOMAIN a : a[i].nan \/ b[i].nan
    THEN NaN
    ELSE Float(SumSeq([i \in DOMAIN a |-> TruncDiv(a[i].v * b[i].v, Scale)]))

\* np.clip(x, -1.0, 1.0)
Clip(x) ==
    IF x.nan THEN NaN
    ELSE IF x.v < -Scale THEN Float(-Scale)
    ELSE IF x.v > Scale THEN Float(Scale)
    ELSE x

\* arccos on [0, 1] in thousandths of a radian:
\* sqrt(1 - x) * (1.5707288 - 0.2121144 x + 0.0742610 x^2 - 0.0187293 x^3)
ArccosUpper(c) ==
    LET root == Isqrt((Scale - c) * Scale)
        c2 == TruncDiv(c * c, Scale)
        c3 == TruncDiv(c2 * c, Scale)
        poly == 1571 - TruncDiv(212 * c, Scale)
                     + TruncDiv(74 * c2, Scale)
                     - TruncDiv(19 * c3, Scale)
    IN  TruncDiv(root * poly, Scale)

\* np.arccos
Arccos(x) ==
    IF x.nan THEN NaN
    ELSE IF x.v >= 0 THEN Float(ArccosUpper(x.v))
    ELSE Float(3142 - ArccosUpper(-x.v))

\* np.degrees
Degrees(x) == IF x.nan THEN NaN ELSE Float(TruncDiv(x.v * 180000, 3142))

\* angle_between with the first vector left unnormalised
angle_between_raw_first(self, vector_1, vector_2) ==
    LET a == IF vector_1 = None THEN self.vector_1 ELSE vector_1
        b == IF vector_2 = None THEN self.vector_2 ELSE vector_2
        v1_u == [i \in DOMAIN a |-> Float(a[i] * Scale)]
        v2_u == unit_vector(b)
    IN  Arccos(Clip(Dot(v1_u, v2_u)))

\* Angle.angle_between
angle_between(self, vector_1, vector_2) ==
    LET a == IF vector_1 = None THEN self.vector_1 ELSE vector_1
        b == IF vector_2 = None THEN self.vector_2 ELSE vector_2
        v1_u == unit_vector(a)
        v2_u == unit_vector(b)
    IN  Arccos(Clip(Dot(v1_u, v2_u)))

\* Angle.__init__
AngleInit(name, v1, v2) ==
    LET self0 == [name |-> name, vector_1 |-> v1, vector_2 |-> v2]
        a2 == angle_between(self0, Slice(v1, 2), Slice(v2, 2))
        a3 == angle_between(self0, Slice(v1, 3), Slice(v2, 3))
    IN  Return([name |-> name,
                vector_1 |-> v1,
                vector_2 |-> v2,
                angle_2d |-> a2,
                angle_3d |-> a3,
                angle_2d_radians |-> a2,
                angle_3d_radians |-> a3,
                angle_2d_degrees |-> Degrees(a2),
                angle_3d_degrees |-> Degrees(a3)])

----------------------------------------------------------------------------
(* class MediaPipeClient *)

\* The video decoder (cv2) and the detector (mediapipe) are libraries outside
\* the repository.  A video file is [opened, images]: whether
\* cap.isOpened() holds after cv2.VideoCapture(path), and the images that
\* cap.read() returns in turn (ret is False once they are used up).  An image
\* is [shape, results]: image.shape and the object pose.process returns for
\* it, whose pose_landmarks is None or an object with a landmark list.

\* a Python int, where the value may also be None
PyInt(n) == [type |-> "int", v |-> n]

\* Path(video_input_filename).stem of a plain file name: the name without
\* its last suffix
Stem(name) ==
    LET dots == {i \in 2..Len(name) : name[i] = "."}
    IN  IF dots = {}
        THEN name
        ELSE SubSeq(name, 1, (CHOOSE d \in dots : \A e \in dots : e <= d) - 1)

\* MediaPipeClient.__init__; a file name is the sequence of its characters;
\* os.makedirs is taken to succeed
MediaPipeClientInit(video_input_filename, video_input_path, video_output_prefix, id) ==
    IF video_input_filename # <<>>
    THEN Return([_results_raw |-> <<>>,
                 frame_count |-> 0,
                 id |-> id,
                 video_input_path |-> video_input_path,
                 frame_data_list |-> <<>>,
                 json_output_path |->
                     <<video_output_prefix, "/", Stem(video_input_filename), "-", id>>,
                 video_input_filename |-> video_input_filename])
    ELSE Raise("MediaPipeClientError", <<"No input file specified">>)

\* serialize_pose_landmarks with the last coordinate key left out
serialize_pose_landmarks_without_z_normalized(self, pose_landmarks) ==
    IF Len(pose_landmarks) = 0
    THEN Return(EmptyDict)
    ELSE LET h == self.image_dimensions[1]
             w == self.image_dimensions[2]
             i == First({ix \in DOMAIN joint_position_names : ix \notin DOMAIN pose_landmarks})
         IN  IF i # 0
             THEN Raise("IndexError", <<"list index out of range">>)
             ELSE Return([j \in DOMAIN joint_index |->
                            [x |-> pose_landmarks[joint_index[j]].x,
                             y |-> pose_landmarks[joint_index[j]].y,
                             z |-> pose_landmarks[joint_index[j]].z,
                             x_normalized |-> pose_landmarks[joint_index[j]].x * w,
                             y_normalized |-> pose_landmarks[joint_index[j]].y * h]])

\* MediaPipeClient.serialize_pose_landmarks; self.joints is the same 33-name
\* list as joint_position_names, and pose_landmarks[i] of a list with no
\* i-th element raises IndexError
serialize_pose_landmarks(self, pose_landmarks) ==
    IF Len(pose_landmarks) = 0
    THEN Return(EmptyDict)
    ELSE LET h == self.image_dimensions[1]
             w == self.image_dimensions[2]
             i == First({ix \in DOMAIN joint_position_names : ix \notin DOMAIN pose_landmarks})
         IN  IF i # 0
             THEN Raise("IndexError", <<"list index out of range">>)
             ELSE Return([j \in DOMAIN joint_index |->
                            [x |-> pose_landmarks[joint_index[j]].x,
                             y |-> pose_landmarks[joint_index[j]].y,
                             z |-> pose_landmarks[joint_index[j]].z,
                             x_normalized |-> pose_landmarks[joint_index[j]].x * w,
                             y_normalized |-> pose_landmarks[joint_index[j]].y * h,
                             z_normalized |-> pose_landmarks[joint_index[j]].z * w]])

\* the while loop of process_video (lines 576-608); cap is the list of the
\* images not read yet
RECURSIVE process_video_loop(_, _, _)
process_video_loop(self, cap, limit) ==
    IF limit.type # "int"
    THEN [exc |-> [type |-> "TypeError",
                   msg |-> <<"'>=' not supported between instances of 'int' and '",
                             limit.type, "'">>],
          ret |-> None, self |-> self]
    ELSE IF self.frame_count >= limit.v
    THEN [exc |-> NoExc, ret |-> None, self |-> self]
    ELSE IF cap = <<>>
    THEN [exc |-> NoExc, ret |-> None, self |-> self]
    ELSE LET image == Head(cap)
             counted == SetAttr([self EXCEPT !.frame_count = @ + 1],
                                "image_dimensions", image.shape)
             this_frame_data ==
                 [k \in Range(Top_keys) |->
                     CASE k = "sequence_id" -> counted.id
                       [] k = "sequence_source" -> "mediapipe"
                       [] k = "frame_number" -> counted.frame_count
                       [] k = "image_dimensions" ->
                            [height |-> image.shape[1], width |-> image.shape[2]]
                       [] OTHER -> EmptyDict]
             results == image.results
             stored == [counted EXCEPT !._results_raw = Append(@, results)]
         IN  IF results.pose_landmarks = None
             THEN process_video_loop(
                      [stored EXCEPT !.frame_data_list = Append(@, this_frame_data)],
                      Tail(cap), limit)
             ELSE LET r == serialize_pose_landmarks(stored, results.pose_landmarks.landmark)
                  IN  IF r.exc # NoExc
                      THEN [exc |-> r.exc, ret |-> None, self |-> stored]
                      ELSE process_video_loop(
                               [stored EXCEPT !.frame_data_list =
                                   Append(@, [this_frame_data EXCEPT !["joint_positions"] = r.ret])],
                               Tail(cap), limit)

\* MediaPipeClient.process_video on the video file v
process_video(self, limit, v) ==
    LET reset == [self EXCEPT !.frame_count = 0]
    IN  IF ~v.opened
        THEN [exc |-> [type |-> "MediaPipeClientError", msg |-> <<"Error opening file">>],
              ret |-> None, self |-> reset]
        ELSE process_video_loop(reset, v.images, limit)

----------------------------------------------------------------------------
(* Actions *)

\* Joint(name, joint_data)
NewJoint ==
    \E name \in ProbeJoints :
        LET r == JointInit(name, joint_data)
        IN  /\ joint' = r.ret
            /\ last' = [op |-> "Joint", exc |-> r.exc, ret |-> r.ret]
            /\ UNCHANGED <<clientVars, joint_data, frame_data, frame, sequence, seq, calls,
                           vector1, vector2, angle, angle_swapped>>

\* BlazePoseFrame(frame_data)
NewFrame ==
    LET r == BlazePoseFrameInit(frame_data)
    IN  /\ frame' = r.ret
        /\ last' = [op |-> "BlazePoseFrame", exc |-> r.exc, ret |-> r.ret]
        /\ UNCHANGED <<clientVars, joint_data, joint, frame_data, sequence, seq, calls,
                       vector1, vector2, angle, angle_swapped>>

\* frame.generate_angle_measurements()
CallGenerateAngleMeasurements ==
    /\ frame # None
    /\ LET r == generate_angle_measurements(frame)
       IN  /\ frame' = r.self
           /\ last' = [op |-> "generate_angle_measurements", exc |-> r.exc, ret |-> r.ret]
    /\ UNCHANGED <<clientVars, joint_data, joint, frame_data, sequence, seq, calls,
                   vector1, vector2, angle, angle_swapped>>

\* frame.set_joint_positions(): the dict is returned, nothing is assigned
CallSetJointPositions ==
    /\ frame # None
    /\ LET r == set_joint_positions(frame)
       IN  last' = [op |-> "set_joint_positions", exc |-> r.exc, ret |-> r.ret]
    /\ UNCHANGED <<clientVars, joint_data, joint, frame_data, frame, sequence, seq, calls,
                   vector1, vector2, angle, angle_swapped>>

\* BlazePoseSequence(sequence)
NewSequence ==
    LET r == BlazePoseSequenceInit(sequence)
    IN  /\ seq' = r.ret
        /\ calls' = 0
        /\ last' = [op |-> "BlazePoseSequence", exc |-> r.exc, ret |-> r.ret]
        /\ UNCHANGED <<clientVars, joint_data, joint, frame_data, frame, sequence,
                       vector1, vector2, angle, angle_swapped>>

\* seq.generate_blaze_pose_frames_from_sequence()
CallGenerateFrames ==
    /\ seq # None
    /\ calls < MaxCalls
    /\ LET r == generate_blaze_pose_frames_from_sequence(seq)
       IN  /\ seq' = r.self
           /\ last' = [op |-> "generate_blaze_pose_frames_from_sequence",
                       exc |-> r.exc, ret |-> r.ret]
    /\ calls' = calls + 1
    /\ UNCHANGED <<clientVars, joint_data, joint, frame_data, frame, sequence,
                   vector1, vector2, angle, angle_swapped>>

\* Angle("a", vector1, vector2)
NewAngle ==
    LET r == AngleInit("a", vector1, vector2)
    IN  /\ angle' = r.ret
        /\ last' = [op |-> "Angle", exc |-> r.exc, ret |-> r.ret]
        /\ UNCHANGED <<clientVars, joint_data, joint, frame_data, frame, sequence, seq, calls,
                       vector1, vector2, angle_swapped>>

\* Angle("a", vector2, vector1)
NewAngleSwapped ==
    LET r == AngleInit("a", vector2, vector1)
    IN  /\ angle_swapped' = r.ret
        /\ last' = [op |-> "Angle", exc |-> r.exc, ret |-> r.ret]
        /\ UNCHANGED <<clientVars, joint_data, joint, frame_data, frame, sequence, seq, calls,
                       vector1, vector2, angle>>

\* MediaPipeClient(video_input_filename=filename, id=7)
NewClient ==
    LET r == MediaPipeClientInit(filename, "./test_videos", "./data/keypoints", 7)
    IN  /\ client' = r.ret
        /\ process_calls' = 0
        /\ last' = [op |-> "MediaPipeClient", exc |-> r.exc, ret |-> r.ret]
        /\ UNCHANGED <<parserVars, filename, video>>

\* client.process_video(limit)
CallProcessVideo ==
    /\ client # None
    /\ process_calls < MaxProcessCalls
    /\ \E limit \in {None} \cup {PyInt(n) : n \in 0..MaxLimit} :
          LET r == process_video(client, limit, video)
          IN  /\ client' = r.self
              /\ last' = [op |-> "process_video", exc |-> r.exc, ret |-> r.ret,
                          limit |-> limit]
    /\ process_calls' = process_calls + 1
    /\ UNCHANGED <<parserVars, filename, video>>

----------------------------------------------------------------------------
(* Specifications *)

NoLast == [op |-> "none", exc |-> NoExc, ret |-> None]

\* no client was built
NoClient ==
    /\ filename = <<>>
    /\ video = [opened |-> FALSE, images |-> <<>>]
    /\ client = None
    /\ process_calls = 0

\* records a Joint may be built from: any set of the seven keys, with or
\* without a key that is not one of them
JointDataInputs ==
    {[k \in KS |-> IF k = "image_dimensions"
                   THEN [height |-> 100, width |-> 200]
                   ELSE 2 * p] :
        KS \in SUBSET (Range(Joint_required_keys) \cup {"visibility"}),
        p \in 0..MaxPose}

InitJoint ==
    /\ joint_data \in JointDataInputs
    /\ joint = None
    /\ frame_data = EmptyDict /\ frame = None
    /\ sequence = <<>> /\ seq = None /\ calls = 0
    /\ vector1 = <<>> /\ vector2 = <<>>
    /\ angle = None /\ angle_swapped = None
    /\ NoClient
    /\ last = NoLast

NextJoint == NewJoint

SpecJoint == InitJoint /\ [][NextJoint]_vars

InitFrame ==
    /\ \E T \in SubsetsUpTo(Range(Top_keys), MaxMissingTop) :
       \E jp \in JointPositionVariants :
          frame_data = RawFrame(T, 1, jp)
    /\ frame = None
    /\ joint_data = EmptyDict /\ joint = None
    /\ sequence = <<>> /\ seq = None /\ calls = 0
    /\ vector1 = <<>> /\ vector2 = <<>>
    /\ angle = None /\ angle_swapped = None
    /\ NoClient
    /\ last = NoLast

NextFrame ==
    \/ NewFrame
    \/ CallGenerateAngleMeasurements
    \/ CallSetJointPositions

SpecFrame == InitFrame /\ [][NextFrame]_vars

\* the raw entries an input sequence is made of: entry kind c, frame number n
SequenceEntry(c, n) ==
    LET p == n % (MaxPose + 1)
    IN  CASE c = 1 -> RawFrame({}, n, EmptyDict)
          [] c = 2 -> RawFrame({}, n, RawJointPositions({}, {}, {}, {}, p))
          [] c = 3 -> RawFrame({"sequence_id"}, n, RawJointPositions({}, {}, {}, {}, p))
          [] c = 4 -> RawFrame({"joint_positions"}, n, EmptyDict)
          [] c = 5 -> RawFrame({}, n, RawJointPositions({"nose"}, {}, {}, {}, p))
          [] c = 6 -> RawFrame({}, n, RawJointPositions({"right_foot_index"}, {}, {}, {}, p))
          [] c = 7 -> RawFrame({}, n, RawJointPositions({}, {"nose"}, {"x"}, {}, p))
          [] OTHER -> RawFrame({}, n, RawJointPositions({}, {"left_knee"}, {"z_normalized"}, {}, p))

\* every entry an input sequence may hold at position n
SequenceEntries ==
    [n \in 1..MaxLen |-> {SequenceEntry(c, n) : c \in 1..8}]

\* every input sequence of length n
RECURSIVE SequencesOfLen(_)
SequencesOfLen(n) ==
    IF n = 0 THEN {<<>>}
    ELSE {Append(s, e) : s \in SequencesOfLen(n - 1), e \in SequenceEntries[n]}

SequenceInputs == UNION {SequencesOfLen(n) : n \in 0..MaxLen}

InitSequence ==
    /\ sequence \in SequenceInputs
    /\ seq = None /\ calls = 0
    /\ joint_data = EmptyDict /\ joint = None
    /\ frame_data = EmptyDict /\ frame = None
    /\ vector1 = <<>> /\ vector2 = <<>>
    /\ angle = None /\ angle_swapped = None
    /\ NoClient
    /\ last = NoLast

NextSequence ==
    \/ NewSequence
    \/ CallGenerateFrames

SpecSequence == InitSequence /\ [][NextSequence]_vars

Vectors3 == {<<a, b, c>> : a \in -MaxVec..MaxVec, b \in -MaxVec..MaxVec, c \in -MaxVec..MaxVec}

InitAngle ==
    /\ vector1 \in Vectors3
    /\ vector2 \in Vectors3
    /\ angle = None /\ angle_swapped = None
    /\ joint_data = EmptyDict /\ joint = None
    /\ frame_data = EmptyDict /\ frame = None
    /\ sequence = <<>> /\ seq = None /\ calls = 0
    /\ NoClient
    /\ last = NoLast

NextAngle ==
    \/ NewAngle
    \/ NewAngleSwapped

SpecAngle == InitAngle /\ [][NextAngle]_vars

\* the landmark of vocabulary joint number i in pose p
Landmark(i, p) ==
    [x |-> CoordValue(i, "x", p), y |-> CoordValue(i, "y", p), z |-> CoordValue(i, "z", p)]

\* the n-th image of a video, of kind c: 1 no body detected; 2 a pose of 33
\* landmarks; 3 a landmark list that is empty; 4 a landmark list one short
Image(c, n) ==
    LET p == n % (MaxPose + 1)
        landmarks(len) == [landmark |-> [i \in 1..len |-> Landmark(i, p)]]
    IN  [shape |-> <<100, 200, 3>>,
         results |->
            [pose_landmarks |->
                CASE c = 1 -> None
                  [] c = 2 -> landmarks(Len(joint_position_names))
                  [] c = 3 -> landmarks(0)
                  [] OTHER -> landmarks(Len(joint_position_names) - 1)]]

\* every image a video may hold at position n
Images ==
    [n \in 1..MaxImages |-> {Image(c, n) : c \in 1..4}]

\* the image lists of length n
RECURSIVE ImagesOfLen(_)
ImagesOfLen(n) ==
    IF n = 0 THEN {<<>>}
    ELSE {Append(s, e) : s \in ImagesOfLen(n - 1), e \in Images[n]}

\* a file that cannot be opened, or one that holds up to MaxImages images
VideoInputs ==
    {[opened |-> FALSE, images |-> <<>>]}
    \cup {[opened |-> TRUE, images |-> s] :
             s \in UNION {ImagesOfLen(n) : n \in 0..MaxImages}}

InitClient ==
    /\ filename \in {<<>>, <<"a", ".", "m", "p", "4">>}
    /\ video \in VideoInputs
    /\ client = None /\ process_calls = 0
    /\ joint_data = EmptyDict /\ joint = None
    /\ frame_data = EmptyDict /\ frame = None
    /\ sequence = <<>> /\ seq = None /\ calls = 0
    /\ vector1 = <<>> /\ vector2 = <<>>
    /\ angle = None /\ angle_swapped = None
    /\ last = NoLast

NextClient ==
    \/ NewClient
    \/ CallProcessVideo

SpecClient == InitClient /\ [][NextClient]_vars

----------------------------------------------------------------------------
(* Claims about Joint *)

JointBuilt == last.op = "Joint"

\* C7: building a Joint from a record that lacks any of the seven required
\* keys fails with JointError, and a Joint object exists only if all seven
\* keys were present in its source record.
C7_MissingKeyRaisesJointError ==
    /\ (JointBuilt /\ \E k \in Range(Joint_required_keys) : k \notin DOMAIN joint_data)
          => (last.exc.type = "JointError" /\ joint = None)
    /\ joint # None => \A k \in Range(Joint_required_keys) : k \in DOMAIN joint_data

\* the half of C7 the code does keep: no Joint without all seven keys
JointOnlyFromCompleteRecord ==
    joint # None => \A k \in Range(Joint_required_keys) : k \in DOMAIN joint_data

----------------------------------------------------------------------------
(* Claims about BlazePoseFrame *)

FrameBuilt == last.op = "BlazePoseFrame"

FrameAttempted == last.op # "none"

HasTopKeys(fd) == Range(Top_keys) \subseteq DOMAIN fd

Vocabulary == Range(joint_position_names)

MissingJoints(jp) == {j \in Vocabulary : j \notin DOMAIN jp}

JointIncomplete(jp, j) ==
    j \in DOMAIN jp /\ \E k \in Range(required_joint_keys) : k \notin DOMAIN jp[j]

FirstMissingJoint(jp) ==
    LET absent(j) == j \notin DOMAIN jp
    IN  joint_position_names[
        First({ix \in DOMAIN joint_position_names :
                  absent(joint_position_names[ix])})]

\* the vocabulary joints that come before joint j
JointsBefore(j) ==
    {joint_position_names[i] : i \in 1..(IndexOf(joint_position_names, j) - 1)}

\* C2: a raw frame with all five top-level keys and an empty joint_positions
\* is built without an exception, into a frame with has_joint_positions
\* false, joints empty and angles empty.
C2_EmptyJointPositionsFrame ==
    (HasTopKeys(frame_data) /\ ~Bool(frame_data["joint_positions"]) /\ FrameAttempted)
       => /\ FrameBuilt => last.exc = NoExc
          /\ frame # None
          /\ frame.has_joint_positions = FALSE
          /\ frame.joints = EmptyDict
          /\ frame.angles = EmptyDict

C2_Witness ==
    /\ HasTopKeys(frame_data) /\ ~Bool(frame_data["joint_positions"])
    /\ FrameBuilt /\ frame # None /\ ~frame.has_joint_positions

\* C3 as stated: a raw frame whose non-empty joint_positions lacks a
\* vocabulary name raises a BlazePoseFrameError whose message names the first
\* missing joint in vocabulary order, and no frame object is produced.
C3_MissingJointNamed ==
    (/\ FrameBuilt /\ HasTopKeys(frame_data)
     /\ Bool(frame_data["joint_positions"])
     /\ MissingJoints(frame_data["joint_positions"]) # {})
       => /\ last.exc.type = "BlazePoseFrameError"
          /\ FirstMissingJoint(frame_data["joint_positions"]) \in Range(last.exc.msg)
          /\ frame = None

\* C3 amended: such a frame raises a BlazePoseFrameError and yields no frame;
\* the message names the first missing joint when every vocabulary joint
\* before it carries all six coordinate keys, and otherwise names an
\* incomplete joint before it together with a coordinate key that joint lacks.
C3_FirstDefectNamed ==
    (/\ FrameBuilt /\ HasTopKeys(frame_data)
     /\ Bool(frame_data["joint_positions"])
     /\ MissingJoints(frame_data["joint_positions"]) # {})
       => LET jp == frame_data["joint_positions"]
              fm == FirstMissingJoint(jp)
              early == {j \in JointsBefore(fm) : JointIncomplete(jp, j)}
          IN  /\ last.exc.type = "BlazePoseFrameError"
              /\ frame = None
              /\ IF early = {}
                 THEN last.exc.msg = <<fm, " missing from joint positions dict">>
                 ELSE \E j \in early :
                      \E k \in Range(required_joint_keys) \ DOMAIN jp[j] :
                         last.exc.msg = <<k, " missing from ", j, " position data">>

\* a frame with a missing joint and an incomplete joint before it was built
C3_Witness ==
    /\ FrameBuilt /\ HasTopKeys(frame_data)
    /\ Bool(frame_data["joint_positions"])
    /\ MissingJoints(frame_data["joint_positions"]) # {}
    /\ \E j \in JointsBefore(FirstMissingJoint(frame_data["joint_positions"])) :
          JointIncomplete(frame_data["joint_positions"], j)
    /\ last.exc.type = "BlazePoseFrameError"

\* C4: a raw frame whose joint_positions has all 33 vocabulary names, one of
\* them lacking a coordinate key, raises a BlazePoseFrameError whose message
\* names a missing key and the joint it is missing from.
C4_MissingKeyAndJointNamed ==
    (/\ FrameBuilt /\ HasTopKeys(frame_data)
     /\ MissingJoints(frame_data["joint_positions"]) = {}
     /\ \E j \in Vocabulary : JointIncomplete(frame_data["joint_positions"], j))
       => /\ last.exc.type = "BlazePoseFrameError"
          /\ frame = None
          /\ \E j \in Vocabulary :
             \E k \in Range(required_joint_keys) \ DOMAIN frame_data["joint_positions"][j] :
                last.exc.msg = <<k, " missing from ", j, " position data">>

C4_Witness ==
    /\ FrameBuilt /\ HasTopKeys(frame_data)
    /\ MissingJoints(frame_data["joint_positions"]) = {}
    /\ \E j \in Vocabulary : JointIncomplete(frame_data["joint_positions"], j)
    /\ last.exc.type = "BlazePoseFrameError"

\* C8: every constructed frame is well-formed: has_joint_positions holds
\* exactly when joints has precisely the 33 vocabulary names as keys; without
\* joint positions joints and angles are empty; angles is always a mapping,
\* never None.
C8_FrameWellFormed ==
    frame # None
       => /\ frame.has_joint_positions <=> (DOMAIN frame.joints = Vocabulary)
          /\ ~frame.has_joint_positions
                => (frame.joints = EmptyDict /\ frame.angles = EmptyDict)
          /\ frame.angles # None

\* the part of C8 the code does keep
FrameJointsWellFormed ==
    frame # None
       => /\ frame.has_joint_positions <=> (DOMAIN frame.joints = Vocabulary)
          /\ ~frame.has_joint_positions
                => (frame.joints = EmptyDict /\ frame.angles = EmptyDict)

\* C9: generate_angle_measurements or set_joint_positions called on a frame
\* without joint positions raises a BlazePoseFrameError and changes no
\* attribute of the frame.
C9_NoJointsCallRaises ==
    [][(/\ frame # None
        /\ ~frame.has_joint_positions
        /\ last'.op \in {"generate_angle_measurements", "set_joint_positions"})
          => (last'.exc.type = "BlazePoseFrameError" /\ frame' = frame)]_vars

C9_Witness ==
    /\ frame # None
    /\ ~frame.has_joint_positions
    /\ last.op = "generate_angle_measurements"
    /\ last.exc.type = "BlazePoseFrameError"

----------------------------------------------------------------------------
(* Claims about BlazePoseSequence *)

SequenceBuilt == last.op = "BlazePoseSequence"

\* the schema of section 3 of the specification: all five top-level keys,
\* and a non-empty joint_positions holds all 33 vocabulary names, each with
\* all six coordinate keys
EntryValid(fd) ==
    /\ HasTopKeys(fd)
    /\ Bool(fd["joint_positions"])
          => /\ MissingJoints(fd["joint_positions"]) = {}
             /\ \A j \in Vocabulary : ~JointIncomplete(fd["joint_positions"], j)

\* C1: building a sequence from a list with an invalid entry at any position
\* raises a BlazePoseSequenceError and yields no Sequence object, so neither
\* sequence_data nor frames holds the entries before it.
C1_InvalidEntryAbortsConstruction ==
    (SequenceBuilt /\ \E i \in DOMAIN sequence : ~EntryValid(sequence[i]))
       => (last.exc.type = "BlazePoseSequenceError" /\ seq = None)

\* what the code keeps of C1: an entry that validate_pose_schema rejects
\* aborts the construction as a whole
RejectedEntryAbortsConstruction ==
    (SequenceBuilt /\ \E i \in DOMAIN sequence : validate_pose_schema(sequence[i]).exc # NoExc)
       => (last.exc.type = "BlazePoseSequenceError" /\ seq = None)

\* C5: one call of generate_blaze_pose_frames_from_sequence on a constructed
\* sequence of N entries leaves frames holding exactly N frames, the i-th
\* built from the i-th entry of sequence_data.
C5_OneCallBuildsEveryFrame ==
    (seq # None /\ calls = 1)
       => /\ Len(seq.frames) = Len(seq.sequence_data)
          /\ \A i \in DOMAIN seq.frames :
                /\ seq.frames[i] = BlazePoseFrameInit(seq.sequence_data[i]).ret
                /\ seq.frames[i].frame_number = seq.sequence_data[i]["frame_number"]

\* what the code keeps of C5: it holds when every entry is valid
OneCallBuildsEveryFrameOfValidEntries ==
    (seq # None /\ calls = 1 /\ \A i \in DOMAIN sequence : EntryValid(sequence[i]))
       => /\ Len(seq.frames) = Len(seq.sequence_data)
          /\ \A i \in DOMAIN seq.frames :
                /\ seq.frames[i] = BlazePoseFrameInit(seq.sequence_data[i]).ret
                /\ seq.frames[i].frame_number = seq.sequence_data[i]["frame_number"]

\* C6: every entry of sequence_data of a constructed sequence satisfies the
\* whole schema (five top-level keys; a non-empty joint_positions has all 33
\* names, each with all six coordinate keys), and no frame in frames was
\* built from an entry with a missing joint or coordinate key.
C6_SequenceDataValid ==
    seq # None
       => /\ \A i \in DOMAIN seq.sequence_data : EntryValid(seq.sequence_data[i])
          /\ \A i \in DOMAIN seq.frames :
                \E k \in DOMAIN seq.sequence_data :
                   /\ EntryValid(seq.sequence_data[k])
                   /\ seq.frames[i] = BlazePoseFrameInit(seq.sequence_data[k]).ret

\* what the code keeps of C6: the top-level keys and the joint names
SequenceDataNamesValid ==
    seq # None
       => \A i \in DOMAIN seq.sequence_data :
             /\ HasTopKeys(seq.sequence_data[i])
             /\ Bool(seq.sequence_data[i]["joint_positions"])
                   => MissingJoints(seq.sequence_data[i]["joint_positions"]) = {}

\* C11: a call of generate_blaze_pose_frames_from_sequence that raises while
\* building the Frame of some entry leaves the frames list as it was before
\* the call: the frames built from the entries before it are not kept.
C11_FailedCallLeavesFramesUnchanged ==
    [][(CallGenerateFrames /\ last'.exc # NoExc) => seq'.frames = seq.frames]_vars

\* the entries of sequence_data before the first one whose Frame cannot be built
FramesBeforeFailure(self) ==
    LET sd == self.sequence_data
        k == First({ix \in DOMAIN sd : BlazePoseFrameInit(sd[ix]).exc # NoExc})
    IN  [i \in 1..(k - 1) |-> BlazePoseFrameInit(sd[i]).ret]

\* what the code does in C11's case: the error is propagated, and the frames
\* appended before it stay in the list
FailedCallKeepsFramesBuiltSoFar ==
    [][(CallGenerateFrames /\ last'.exc # NoExc)
          => /\ last'.exc.type = "BlazePoseFrameError"
             /\ seq'.frames = seq.frames \o FramesBeforeFailure(seq)]_vars

\* a failed call that had built a frame before the entry that raised
C11_Witness ==
    /\ seq # None
    /\ last.op = "generate_blaze_pose_frames_from_sequence"
    /\ last.exc # NoExc
    /\ calls = 1
    /\ Len(seq.frames) >= 1

DistinctFrameNumbers(s) ==
    \A i \in DOMAIN s : \A j \in DOMAIN s :
        i # j => s[i]["frame_number"] # s[j]["frame_number"]

\* C12: in a sequence built from entries with pairwise distinct frame_number
\* values, no two frames in frames share a frame_number and frames is no
\* longer than sequence_data, after any number of calls of
\* generate_blaze_pose_frames_from_sequence.
C12_FrameNumbersUnique ==
    (seq # None /\ DistinctFrameNumbers(seq.sequence_data))
       => /\ \A i \in DOMAIN seq.frames : \A j \in DOMAIN seq.frames :
                i # j => seq.frames[i].frame_number # seq.frames[j].frame_number
          /\ Len(seq.frames) <= Len(seq.sequence_data)

\* what the code keeps of C12: it holds as long as the method was called at
\* most once
FrameNumbersUniqueAfterOneCall ==
    (seq # None /\ calls <= 1 /\ DistinctFrameNumbers(seq.sequence_data))
       => /\ \A i \in DOMAIN seq.frames : \A j \in DOMAIN seq.frames :
                i # j => seq.frames[i].frame_number # seq.frames[j].frame_number
          /\ Len(seq.frames) <= Len(seq.sequence_data)

\* every call appends again: after c successful calls frames holds c copies
FramesGrowWithEveryCall ==
    (seq # None /\ \A i \in DOMAIN sequence : EntryValid(sequence[i]))
       => Len(seq.frames) = calls * Len(seq.sequence_data)

----------------------------------------------------------------------------
(* Claims about Angle *)

NonZero(v) == \E i \in DOMAIN v : v[i] # 0

\* C10: angle_between is symmetric: for non-zero vectors of equal dimension
\* angle_between(u, v) == angle_between(v, u), so angle_2d and angle_3d of an
\* Angle are unchanged when its two vectors are swapped.
C10_AngleSymmetric ==
    (angle # None /\ angle_swapped # None)
       => /\ (NonZero(vector1) /\ NonZero(vector2))
                => FloatEq(angle.angle_3d, angle_swapped.angle_3d)
          /\ (NonZero(Slice(vector1, 2)) /\ NonZero(Slice(vector2, 2)))
                => FloatEq(angle.angle_2d, angle_swapped.angle_2d)
          /\ angle.angle_2d = angle_swapped.angle_2d
          /\ angle.angle_3d = angle_swapped.angle_3d

\* both Angles exist, for two different non-zero vectors that are neither
\* parallel nor opposite nor orthogonal
C10_Witness ==
    /\ angle # None /\ angle_swapped # None
    /\ NonZero(Slice(vector1, 2)) /\ NonZero(Slice(vector2, 2))
    /\ vector1 # vector2
    /\ ~angle.angle_3d.nan
    /\ angle.angle_3d.v \notin {0, 1571, 3142}
    /\ angle.angle_2d.v \notin {0, 1571, 3142}

\* the examples of angle_between's docstring (lines 40-45): pi/2, 0 and pi
AngleDocstringExamples ==
    angle # None
       => /\ (vector1 = <<1, 0, 0>> /\ vector2 = <<0, 1, 0>>) => angle.angle_3d.v = 1571
          /\ (vector1 = <<1, 0, 0>> /\ vector2 = <<1, 0, 0>>) => angle.angle_3d.v = 0
          /\ (vector1 = <<1, 0, 0>> /\ vector2 = <<-1, 0, 0>>) => angle.angle_3d.v = 3142
          /\ (vector1 = <<1, 0, 0>> /\ vector2 = <<1, 1, 0>>)
                => angle.angle_2d_degrees.v \in 44900..45100

----------------------------------------------------------------------------
(* Claims about MediaPipeClient *)

\* joint_positions as serialize_pose_landmarks builds it for a detected body
AllJointsAllKeys(jp) ==
    /\ Vocabulary \subseteq DOMAIN jp
    /\ \A j \in Vocabulary : Range(required_joint_keys) \subseteq DOMAIN jp[j]

\* C13: every record in frame_data_list has the five top-level keys and a
\* joint_positions that is empty or holds all 33 vocabulary names, each with
\* all six coordinate keys; a BlazePoseSequence built from frame_data_list
\* passes validation, and a Frame is built from every record of it.
C13_RecordsConformToSchema ==
    client # None
       => LET fdl == client.frame_data_list
              s == BlazePoseSequenceInit(fdl)
              g == generate_blaze_pose_frames_from_sequence(s.ret)
          IN  /\ \A i \in DOMAIN fdl :
                    /\ HasTopKeys(fdl[i])
                    /\ \/ ~Bool(fdl[i]["joint_positions"])
                       \/ AllJointsAllKeys(fdl[i]["joint_positions"])
              /\ s.exc = NoExc
              /\ g.exc = NoExc
              /\ Len(g.self.frames) = Len(fdl)

\* a client whose process_video appended a record with a detected body and a
\* record without one
C13_Witness ==
    /\ client # None
    /\ last.op = "process_video"
    /\ \E i \in DOMAIN client.frame_data_list :
          Bool(client.frame_data_list[i]["joint_positions"])
    /\ \E i \in DOMAIN client.frame_data_list :
          ~Bool(client.frame_data_list[i]["joint_positions"])

\* C14: the i-th record of frame_data_list has frame_number i, after any
\* number of process_video calls on the same client.
C14_FrameNumbersIncreasing ==
    client # None
       => \A i \in DOMAIN client.frame_data_list :
             client.frame_data_list[i]["frame_number"] = i

\* what the code keeps of C14: it holds as long as process_video was called
\* at most once
FrameNumbersIncreasingAfterOneCall ==
    (client # None /\ process_calls <= 1)
       => \A i \in DOMAIN client.frame_data_list :
             client.frame_data_list[i]["frame_number"] = i

\* every call keeps the records of the calls before it and numbers the
\* records it appends from 1 again
FrameNumbersRestartWithEveryCall ==
    [][CallProcessVideo
          => LET old == client.frame_data_list
                 new == client'.frame_data_list
             IN  /\ Len(new) >= Len(old)
                 /\ SubSeq(new, 1, Len(old)) = old
                 /\ \A i \in 1..(Len(new) - Len(old)) :
                       new[Len(old) + i]["frame_number"] = i]_vars

\* a call with an integer limit appends at most limit records
ProcessVideoAppendsAtMostLimit ==
    [][(CallProcessVideo /\ last'.limit # None)
          => Len(client'.frame_data_list) - Len(client.frame_data_list)
                <= last'.limit.v]_vars

\* a call that returns appends one record per image read, with or without a
\* detected body
OneRecordPerImageRead ==
    [][(CallProcessVideo /\ last'.exc = NoExc)
          => /\ Len(client'.frame_data_list) - Len(client.frame_data_list)
                   = client'.frame_count
             /\ client'.frame_count
                   = IF last'.limit.v < Len(video.images)
                     THEN last'.limit.v ELSE Len(video.images)]_vars

\* process_video called without a limit: the default None is compared with
\* frame_count
ProcessVideoWithoutLimitRaises ==
    [][(CallProcessVideo /\ video.opened /\ last'.limit = None)
          => /\ last'.exc.type = "TypeError"
             /\ client'.frame_data_list = client.frame_data_list]_vars

====
